---- MODULE Spec2Model ----
(***************************************************************************)
(* Model of setup_database.py: the PostgreSQL schema it creates, the       *)
(* sample-data loader and the verifier, with the transaction scopes of the *)
(* `with engine.connect() as conn` blocks made explicit.                   *)
(*                                                                         *)
(* A nullable SQL value is a set: {} is NULL and {v} is the value v, so a  *)
(* CHECK or FOREIGN KEY condition `\A v \in col : P(v)` passes on NULL, as *)
(* SQL's three-valued logic makes it do.  DOUBLE PRECISION columns are     *)
(* integers in fixed units (cents, hundredths of a km, seconds) and a      *)
(* timestamp is a number of minutes since 2024-01-01 00:00.                *)
(***************************************************************************)
EXTENDS Integers, Sequences, FiniteSets, TLC

VARIABLES
    db,            \* the committed database
    tx,            \* the open connection's view of the database (uncommitted)
    file,          \* data/samples/samples_1000.csv: NoFile or its rows
    pc,            \* position of the running function
    caller,        \* the function the operator invoked last
    i,             \* index of the next DDL statement / vendor
    df,            \* load_sample_data: the rows read from the file
    trips_data,    \* load_sample_data: the trip dicts built from df
    tables,        \* verify_setup: table names found
    trip_count,    \* verify_setup: SELECT COUNT(*) FROM trips
    vendor_count,  \* verify_setup: SELECT COUNT(*) FROM vendors
    ret,           \* verify_setup's return value: {} before it returns
    exit_code,     \* main's exit status: {} while none
    exc,           \* the exception in flight or propagated: "" when none
    log,           \* the records logged by the current invocation
    stmt,          \* the last statement an SQL client sent on its own
    runs           \* completed runs of main, counted up to MaxRuns

vars == <<db, tx, file, pc, caller, i, df, trips_data, tables, trip_count,
          vendor_count, ret, exit_code, exc, log, stmt, runs>>

----------------------------------------------------------------------------
(* Bounds of the exploration *)

MaxLoads == 2       \* runs of load_sample_data on one schema
MaxClientTrips == 1 \* ids of trips an SQL client may use up: 1..MaxClientTrips
MaxRuns == 2        \* runs of main that are told apart
MaxVerifyRows == 3  \* rows of a table in a database handed to verify_setup alone

\* seeds of the synthesizer's random generator
Seeds == {0, 1}

\* the rows of the trip batch at which a connection fault is tried (0: none)
FaultRows == {0, 1, 2}

\* the vendor ids an SQL client tries: the loader's, another seeded one, and
\* one no seeding of a new schema gives
ClientVendorIds == {1, 2, 4}

----------------------------------------------------------------------------
(* Values *)

NULL == {}

NoFile == [exists |-> FALSE, rows |-> <<>>]

File(rows) == [exists |-> TRUE, rows |-> rows]

NoTx == [schema |-> {"no connection"}, vendors |-> <<>>, zones |-> <<>>,
         trips |-> <<>>, vendor_seq |-> 0, trips_seq |-> 0]

Min(S) == CHOOSE x \in S : \A y \in S : x <= y

----------------------------------------------------------------------------
(* The schema of create_tables *)

TableNames == {"vendors", "zones", "trips"}

TripIndexes == {"idx_trips_pickup_datetime", "idx_trips_pickup_zone",
                "idx_trips_dropoff_zone", "idx_trips_vendor",
                "idx_trips_fare", "idx_trips_speed"}

CheckedColumns == {"passenger_count", "trip_distance_km", "trip_duration_seconds",
                   "fare_amount", "tip_amount", "hour_of_day"}

\* CHECK (<col> >= 0) / CHECK (hour_of_day BETWEEN 0 AND 23), under the name
\* PostgreSQL gives a column constraint
CheckName(col) == "trips_" \o col \o "_check"

\* (mutant) BETWEEN 0 AND 24
CheckHoldsUpTo24(col, v) == IF col = "hour_of_day" THEN v >= 0 /\ v <= 24 ELSE v >= 0

CheckHolds(col, v) == IF col = "hour_of_day" THEN v >= 0 /\ v <= 23 ELSE v >= 0

TripChecks == {CheckName(c) : c \in CheckedColumns}

TripForeignKeys == {"fk_vendor", "fk_pickup_zone", "fk_dropoff_zone"}

TripNotNull == {"trips_pickup_datetime_not_null", "trips_dropoff_datetime_not_null"}

\* what CREATE TABLE <t> adds to the catalog besides the table
ConstraintsOf(t) ==
    IF t = "trips" THEN TripChecks \cup TripForeignKeys \cup TripNotNull ELSE {}

\* the tables a CREATE TABLE <t> references
ReferencedBy(t) == IF t = "trips" THEN {"vendors", "zones"} ELSE {}

\* what DROP TABLE <t> CASCADE removes besides the table
DependentsOf(t) ==
    CASE t = "trips"   -> ConstraintsOf("trips") \cup TripIndexes \cup {"trip_summary"}
      [] t = "vendors" -> {"fk_vendor"}
      [] t = "zones"   -> {"fk_pickup_zone", "fk_dropoff_zone"}
      [] OTHER         -> {}

EmptyDB == [schema |-> {}, vendors |-> <<>>, zones |-> <<>>, trips |-> <<>>,
            vendor_seq |-> 1, trips_seq |-> 1]

Result(e, d) == [err |-> e, d |-> d]

ClearTable(d, t) ==
    CASE t = "trips"   -> [d EXCEPT !.trips = <<>>, !.trips_seq = 1]
      [] t = "vendors" -> [d EXCEPT !.vendors = <<>>, !.vendor_seq = 1]
      [] OTHER         -> [d EXCEPT !.zones = <<>>]

\* (mutant) the block without its DROP statements
DropTableNever(d, t) == Result("", d)

\* DROP TABLE IF EXISTS <t> CASCADE
DropTableIfExists(d, t) ==
    IF t \in d.schema
    THEN Result("", [ClearTable(d, t) EXCEPT !.schema = @ \ ({t} \cup DependentsOf(t))])
    ELSE Result("", d)

\* CREATE TABLE <t> (...): the SERIAL column's sequence starts at 1
CreateTable(d, t) ==
    IF t \in d.schema \/ ~(ReferencedBy(t) \subseteq d.schema)
    THEN Result("ProgrammingError", d)
    ELSE Result("", [ClearTable(d, t) EXCEPT !.schema = @ \cup {t} \cup ConstraintsOf(t)])

\* CREATE INDEX <name> ON <t> (...)
CreateIndex(d, name, t) ==
    IF name \in d.schema \/ t \notin d.schema
    THEN Result("ProgrammingError", d)
    ELSE Result("", [d EXCEPT !.schema = @ \cup {name}])

\* CREATE OR REPLACE VIEW <name> AS SELECT ... FROM <t>
CreateOrReplaceView(d, name, t) ==
    IF t \notin d.schema
    THEN Result("ProgrammingError", d)
    ELSE Result("", [d EXCEPT !.schema = @ \cup {name}])

Stmt(op, name, on) == [op |-> op, name |-> name, on |-> on]

\* schema_sql, statement by statement
schema_sql ==
    << Stmt("drop", "trips", ""), Stmt("drop", "zones", ""), Stmt("drop", "vendors", ""),
       Stmt("create", "vendors", ""), Stmt("create", "zones", ""), Stmt("create", "trips", ""),
       Stmt("index", "idx_trips_pickup_datetime", "trips"),
       Stmt("index", "idx_trips_pickup_zone", "trips"),
       Stmt("index", "idx_trips_dropoff_zone", "trips"),
       Stmt("index", "idx_trips_vendor", "trips"),
       Stmt("index", "idx_trips_fare", "trips"),
       Stmt("index", "idx_trips_speed", "trips"),
       Stmt("view", "trip_summary", "trips") >>

\* (mutant) CREATE ... IF NOT EXISTS in place of drop and create
ExecuteIfNotExists(d, s) ==
    CASE s.op = "drop"   -> Result("", d)
      [] s.op = "create" -> IF s.name \in d.schema THEN Result("", d) ELSE CreateTable(d, s.name)
      [] s.op = "index"  -> IF s.name \in d.schema THEN Result("", d)
                            ELSE CreateIndex(d, s.name, s.on)
      [] OTHER           -> CreateOrReplaceView(d, s.name, s.on)

Execute(d, s) ==
    CASE s.op = "drop"   -> DropTableIfExists(d, s.name)
      [] s.op = "create" -> CreateTable(d, s.name)
      [] s.op = "index"  -> CreateIndex(d, s.name, s.on)
      [] OTHER           -> CreateOrReplaceView(d, s.name, s.on)

----------------------------------------------------------------------------
(* Rows and DML *)

VendorIds(d) == {d.vendors[k].vendor_id : k \in 1..Len(d.vendors)}

ZoneIds(d) == {d.zones[k].zone_id : k \in 1..Len(d.zones)}

\* (mutant) the INSERT without ON CONFLICT, on a table without the UNIQUE
InsertVendorAlways(d, v) ==
    IF "vendors" \notin d.schema
    THEN Result("ProgrammingError", d)
    ELSE Result("", [d EXCEPT !.vendor_seq = @ + 1,
                              !.vendors = Append(@, [vendor_id |-> d.vendor_seq,
                                                     vendor_code |-> v.vendor_code,
                                                     vendor_name |-> v.vendor_name])])

\* INSERT INTO vendors (vendor_code, vendor_name) VALUES (...)
\* ON CONFLICT (vendor_code) DO NOTHING.  nextval() is taken before the
\* conflict is seen, so a skipped row uses up an id too.
InsertVendorOnConflictDoNothing(d, v) ==
    IF "vendors" \notin d.schema
    THEN Result("ProgrammingError", d)
    ELSE IF \E k \in 1..Len(d.vendors) : d.vendors[k].vendor_code = v.vendor_code
         THEN Result("", [d EXCEPT !.vendor_seq = @ + 1])
         ELSE Result("", [d EXCEPT !.vendor_seq = @ + 1,
                                   !.vendors = Append(@, [vendor_id |-> d.vendor_seq,
                                                          vendor_code |-> v.vendor_code,
                                                          vendor_name |-> v.vendor_name])])

\* the error INSERT INTO trips raises for row r: "" when the row is accepted
RowError(d, r) ==
    IF "trips" \notin d.schema THEN "ProgrammingError"
    ELSE IF \/ "trips_pickup_datetime_not_null" \in d.schema /\ r.pickup_datetime = NULL
            \/ "trips_dropoff_datetime_not_null" \in d.schema /\ r.dropoff_datetime = NULL
            \/ \E c \in CheckedColumns :
                    CheckName(c) \in d.schema /\ \E v \in r[c] : ~CheckHolds(c, v)
            \/ "fk_vendor" \in d.schema /\ ~(r.vendor_id \subseteq VendorIds(d))
            \/ "fk_pickup_zone" \in d.schema /\ ~(r.pickup_zone_id \subseteq ZoneIds(d))
            \/ "fk_dropoff_zone" \in d.schema /\ ~(r.dropoff_zone_id \subseteq ZoneIds(d))
         THEN "IntegrityError"
         ELSE ""

Stored(r, id) == [id |-> id] @@ r

\* one INSERT INTO trips in a transaction of its own.  (The id a rejected or
\* rolled-back row has used up is not modelled: no trip id is read anywhere.)
InsertTrip(d, r) ==
    LET e == RowError(d, r) IN
    IF e = ""
    THEN Result("", [d EXCEPT !.trips = Append(@, Stored(r, d.trips_seq)),
                              !.trips_seq = @ + 1])
    ELSE Result(e, d)

\* conn.execute(text("INSERT INTO trips ..."), rows): the rows are inserted one
\* after the other in the connection's transaction and the first error ends
\* the call.  fault > 0: the connection fails when row `fault` is sent.
ExecuteMany(d, rows, fault) ==
    LET bad == {k \in 1..Len(rows) : k = fault \/ RowError(d, rows[k]) # ""}
        n == IF bad = {} THEN Len(rows) ELSE Min(bad) - 1
        e == CASE bad = {}     -> ""
               [] n + 1 = fault -> "OperationalError"
               [] OTHER         -> RowError(d, rows[n + 1])
    IN  Result(e, [d EXCEPT !.trips = @ \o [k \in 1..n |-> Stored(rows[k], d.trips_seq + k - 1)],
                            !.trips_seq = @ + n])

\* (mutant) ON DELETE CASCADE
OnDeleteCascade(trips, id) == SelectSeq(trips, LAMBDA t : t.vendor_id # {id})

\* fk_vendor ... ON DELETE SET NULL
OnDeleteVendor(trips, id) ==
    [k \in 1..Len(trips) |->
        IF trips[k].vendor_id = {id} THEN [trips[k] EXCEPT !.vendor_id = NULL] ELSE trips[k]]

\* DELETE FROM vendors WHERE vendor_id = <id>
DeleteVendor(d, id) ==
    IF "vendors" \notin d.schema
    THEN Result("ProgrammingError", d)
    ELSE Result("", [d EXCEPT
            !.vendors = SelectSeq(@, LAMBDA v : v.vendor_id # id),
            !.trips = IF "fk_vendor" \in d.schema THEN OnDeleteVendor(@, id) ELSE @])

----------------------------------------------------------------------------
(* The sample file and the trips built from it *)

n_samples == 1000

FileColumns == {"pickup_datetime", "dropoff_datetime", "passenger_count",
                "trip_distance_km", "trip_duration_seconds", "fare_amount",
                "tip_amount", "hour_of_day"}

\* row i (from 0) of create_sample_data under seed s of the random generator
SynthRow(k, s) ==
    LET day == (k + s) % 31
        hour == (7 * k + s) % 24
        minute == (11 * k + s) % 60
        pickup == day * 1440 + hour * 60 + minute
        dur == 5 + ((13 * k + s) % 56)
    IN  [pickup_datetime       |-> {pickup},
         dropoff_datetime      |-> {pickup + dur},
         passenger_count       |-> {1 + ((k + s) % 6)},
         trip_distance_km      |-> {(17 * k + s) % 158},
         trip_duration_seconds |-> {dur * 60},
         fare_amount           |-> {500 + ((19 * k + s) % 4501)},
         tip_amount            |-> {(23 * k + s) % 1001},
         hour_of_day           |-> {hour}]

create_sample_data(s) == [k \in 1..n_samples |-> SynthRow(k - 1, s)]

\* row.get(col, default): a column the file lacks is an empty cell here
Get(row, col, default) == IF row[col] = {} THEN {default} ELSE row[col]

\* (mutant) another default vendor
DefaultVendorTwo == {2}

\* "vendor_id": 1,  # Default vendor
DefaultVendor == {1}

\* the trip dict of load_sample_data for one row of the file
BuildTrip(row) ==
    [vendor_id             |-> DefaultVendor,
     pickup_datetime       |-> Get(row, "pickup_datetime", 720),
     dropoff_datetime      |-> Get(row, "dropoff_datetime", 750),
     pickup_zone_id        |-> NULL,
     dropoff_zone_id       |-> NULL,
     passenger_count       |-> Get(row, "passenger_count", 1),
     trip_distance_km      |-> Get(row, "trip_distance_km", 250),
     trip_duration_seconds |-> Get(row, "trip_duration_seconds", 1800),
     fare_amount           |-> Get(row, "fare_amount", 1250),
     tip_amount            |-> Get(row, "tip_amount", 200),
     hour_of_day           |-> Get(row, "hour_of_day", 12)]

vendors_data ==
    << [vendor_code |-> "1", vendor_name |-> "Creative Mobile Technologies"],
       [vendor_code |-> "2", vendor_name |-> "VeriFone Inc."],
       [vendor_code |-> "3", vendor_name |-> "Unknown Vendor"] >>

\* rows of a sample file somebody put there before the first run
NoColumnsRow == [c \in FileColumns |-> {}]

BoundaryRow == [pickup_datetime |-> {0}, dropoff_datetime |-> {5},
                passenger_count |-> {0}, trip_distance_km |-> {0},
                trip_duration_seconds |-> {0}, fare_amount |-> {0},
                tip_amount |-> {0}, hour_of_day |-> {23}]

BadHourRow == [BoundaryRow EXCEPT !.hour_of_day = {24}]

GivenRows == {NoColumnsRow, BoundaryRow, BadHourRow}

\* an empty file (a header alone), a file without the columns, a file of
\* boundary values, and files with a row the schema rejects
GivenFiles == { <<>>, <<NoColumnsRow>>, <<BoundaryRow, NoColumnsRow>>,
                <<BadHourRow>>, <<BoundaryRow, BadHourRow, NoColumnsRow>> }

\* the row of an INSERT that names one checked column: the others are NULL,
\* tip_amount takes its DEFAULT 0
ClientRow(vendor, col, val) ==
    [[vendor_id             |-> vendor,
      pickup_datetime       |-> {720},
      dropoff_datetime      |-> {750},
      pickup_zone_id        |-> NULL,
      dropoff_zone_id       |-> NULL,
      passenger_count       |-> NULL,
      trip_distance_km      |-> NULL,
      trip_duration_seconds |-> NULL,
      fare_amount           |-> NULL,
      tip_amount            |-> {0},
      hour_of_day           |-> NULL] EXCEPT ![col] = val]

ClientValues(col) ==
    IF col = "hour_of_day" THEN {NULL, {0}, {23}, {24}} ELSE {{0 - 1}, {0}}

----------------------------------------------------------------------------
(* Control *)

Entry(level, msg, args) == [level |-> level, msg |-> msg, args |-> args]

NoStmt == [op |-> "none", row |-> <<>>, id |-> 0]

\* where a function's return or exception takes the run
AfterCreateTables == IF caller = "main" THEN "ld_start" ELSE "idle"

AfterLoad == IF caller = "main" THEN "vf_tables" ELSE "idle"

AfterVerify == IF caller = "main" THEN "m_verified" ELSE "idle"

AfterRaise == IF caller = "main" THEN "m_except" ELSE "idle"

\* conn.commit(): the connection's work becomes the database
Commit(d, t) == t

\* (mutant) a connection in autocommit: what was executed stays
CloseKeepsWork(d, t) == t

\* leaving `with engine.connect() as conn` in create_tables closes the
\* connection, which rolls back what was not committed
CloseCreateTables(d, t) == d

\* (mutant) the same for the loader
CloseLoadKeepsWork(d, t) == t

\* the same for load_sample_data's connection
CloseLoad(d, t) == d

Invoke(f, first) ==
    /\ pc = "idle"
    /\ caller' = f
    /\ pc' = first
    /\ i' = 0
    /\ df' = <<>>
    /\ trips_data' = <<>>
    /\ tables' = {}
    /\ trip_count' = {}
    /\ vendor_count' = {}
    /\ ret' = {}
    /\ exit_code' = {}
    /\ UNCHANGED <<tx, file, runs>>

\* a function of the program is called: nothing has happened to the database yet
InvokeFunction(f, first) ==
    /\ Invoke(f, first)
    /\ exc' = ""
    /\ stmt' = NoStmt
    /\ db' = db

locals == <<df, trips_data, tables, trip_count, vendor_count>>

Counted(n) == IF n < MaxRuns THEN n + 1 ELSE n

----------------------------------------------------------------------------
(* main *)

CallMain ==
    /\ InvokeFunction("main", "m_connect")
    /\ log' = <<Entry("INFO", "Starting NYC Taxi Analytics Database Setup", <<>>)>>

\* with engine.connect() as conn: conn.execute(text("SELECT 1"))
MainConnect ==
    /\ pc = "m_connect"
    /\ pc' = "ct_begin"
    /\ log' = Append(log, Entry("INFO", "Database connection successful", <<>>))
    /\ UNCHANGED <<db, tx, file, caller, i, locals, ret, exit_code, exc, stmt, runs>>

\* if verify_setup(engine): ... else: sys.exit(1)
MainVerified ==
    /\ pc = "m_verified"
    /\ pc' = "idle"
    /\ IF ret = {TRUE}
       THEN /\ log' = Append(log, Entry("INFO", "Database setup completed successfully!", <<>>))
            /\ exit_code' = {0}
       ELSE /\ log' = Append(log, Entry("ERROR", "Database setup failed", <<>>))
            /\ exit_code' = {1}
    /\ runs' = Counted(runs)
    /\ UNCHANGED <<db, tx, file, caller, i, locals, ret, exc, stmt>>

\* except Exception as e: ... sys.exit(1)
MainExcept ==
    /\ pc = "m_except"
    /\ pc' = "idle"
    /\ log' = Append(log, Entry("ERROR", "Setup failed", <<>>))
    /\ exit_code' = {1}
    /\ runs' = Counted(runs)
    /\ UNCHANGED <<db, tx, file, caller, i, locals, ret, exc, stmt>>

----------------------------------------------------------------------------
(* create_tables *)

CallCreateTables ==
    /\ InvokeFunction("create_tables", "ct_begin")
    /\ log' = <<>>

\* with engine.connect() as conn:
CreateTablesBegin ==
    /\ pc = "ct_begin"
    /\ pc' = "ct_execute"
    /\ tx' = db
    /\ i' = 1
    /\ log' = Append(log, Entry("INFO", "Creating database tables...", <<>>))
    /\ UNCHANGED <<db, file, caller, locals, ret, exit_code, exc, stmt, runs>>

\* conn.execute(text(schema_sql)): the server runs the statements in order
\* inside the connection's transaction and stops at the first error
CreateTablesExecute ==
    /\ pc = "ct_execute"
    /\ LET r == Execute(tx, schema_sql[i]) IN
        IF r.err = ""
        THEN /\ tx' = r.d
             /\ i' = i + 1
             /\ pc' = IF i = Len(schema_sql) THEN "ct_commit" ELSE "ct_execute"
             /\ exc' = exc
        ELSE /\ exc' = r.err
             /\ pc' = "ct_close"
             /\ UNCHANGED <<tx, i>>
    /\ UNCHANGED <<db, file, caller, locals, ret, exit_code, log, stmt, runs>>

\* conn.commit()
CreateTablesCommit ==
    /\ pc = "ct_commit"
    /\ db' = Commit(db, tx)
    /\ pc' = "ct_close"
    /\ UNCHANGED <<tx, file, caller, i, locals, ret, exit_code, exc, log, stmt, runs>>

\* the end of the with block, then the function returns or the error goes on
CreateTablesClose ==
    /\ pc = "ct_close"
    /\ db' = CloseCreateTables(db, tx)
    /\ tx' = NoTx
    /\ i' = 0
    /\ IF exc = ""
       THEN /\ log' = Append(log, Entry("INFO", "Database tables created successfully", <<>>))
            /\ pc' = AfterCreateTables
       ELSE /\ log' = log
            /\ pc' = AfterRaise
    /\ UNCHANGED <<file, caller, locals, ret, exit_code, exc, stmt, runs>>

----------------------------------------------------------------------------
(* load_sample_data *)

CallLoadSampleData ==
    /\ db.vendor_seq < 3 * MaxLoads + 1
    /\ InvokeFunction("load_sample_data", "ld_start")
    /\ log' = <<>>

\* if not os.path.exists(sample_file): create_sample_data()
LoadStart ==
    /\ pc = "ld_start"
    /\ pc' = "ld_read"
    /\ IF ~file.exists
       THEN /\ \E s \in Seeds : file' = File(create_sample_data(s))
            /\ log' = log \o << Entry("INFO", "Loading sample data...", <<>>),
                                Entry("WARNING", "Sample data file not found", <<>>),
                                Entry("INFO", "Creating sample data...", <<>>),
                                Entry("INFO", "Created sample data", <<n_samples>>) >>
       ELSE /\ file' = file
            /\ log' = Append(log, Entry("INFO", "Loading sample data...", <<>>))
    /\ UNCHANGED <<db, tx, caller, i, locals, ret, exit_code, exc, stmt, runs>>

\* df = pd.read_csv(sample_file); with engine.connect() as conn:
LoadRead ==
    /\ pc = "ld_read"
    /\ pc' = "ld_vendor"
    /\ df' = file.rows
    /\ log' = Append(log, Entry("INFO", "Loaded sample records", <<Len(file.rows)>>))
    /\ tx' = db
    /\ i' = 1
    /\ UNCHANGED <<db, file, caller, trips_data, tables, trip_count, vendor_count,
                   ret, exit_code, exc, stmt, runs>>

\* for vendor in vendors_data: conn.execute(INSERT ... ON CONFLICT DO NOTHING)
LoadVendor ==
    /\ pc = "ld_vendor"
    /\ LET r == InsertVendorOnConflictDoNothing(tx, vendors_data[i]) IN
        IF r.err = ""
        THEN /\ tx' = r.d
             /\ i' = i + 1
             /\ pc' = IF i = Len(vendors_data) THEN "ld_vendor_commit" ELSE "ld_vendor"
             /\ exc' = exc
        ELSE /\ exc' = r.err
             /\ pc' = "ld_close"
             /\ UNCHANGED <<tx, i>>
    /\ UNCHANGED <<db, file, caller, locals, ret, exit_code, log, stmt, runs>>

\* conn.commit() after the vendors
LoadVendorCommit ==
    /\ pc = "ld_vendor_commit"
    /\ db' = Commit(db, tx)
    /\ pc' = "ld_build"
    /\ log' = Append(log, Entry("INFO", "Vendors loaded", <<>>))
    /\ UNCHANGED <<tx, file, caller, i, locals, ret, exit_code, exc, stmt, runs>>

\* for _, row in df.iterrows(): trips_data.append(trip); if trips_data:
LoadBuild ==
    /\ pc = "ld_build"
    /\ trips_data' = [k \in 1..Len(df) |-> BuildTrip(df[k])]
    /\ pc' = IF Len(df) > 0 THEN "ld_insert" ELSE "ld_close"
    /\ UNCHANGED <<db, tx, file, caller, i, df, tables, trip_count, vendor_count,
                   ret, exit_code, exc, log, stmt, runs>>

\* conn.execute(text("INSERT INTO trips ..."), trips_data)
LoadInsert ==
    /\ pc = "ld_insert"
    /\ \E fault \in FaultRows :
        /\ fault <= Len(trips_data)
        /\ LET r == ExecuteMany(tx, trips_data, fault) IN
            /\ tx' = r.d
            /\ exc' = r.err
            /\ pc' = IF r.err = "" THEN "ld_commit" ELSE "ld_close"
    /\ UNCHANGED <<db, file, caller, i, locals, ret, exit_code, log, stmt, runs>>

\* conn.commit() after the trips
LoadCommit ==
    /\ pc = "ld_commit"
    /\ db' = Commit(db, tx)
    /\ pc' = "ld_close"
    /\ log' = Append(log, Entry("INFO", "sample trips loaded", <<Len(trips_data)>>))
    /\ UNCHANGED <<tx, file, caller, i, locals, ret, exit_code, exc, stmt, runs>>

\* the end of the with block; except Exception as e: logger.error(...); raise
LoadClose ==
    /\ pc = "ld_close"
    /\ db' = CloseLoad(db, tx)
    /\ tx' = NoTx
    /\ i' = 0
    /\ df' = <<>>
    /\ trips_data' = <<>>
    /\ IF exc = ""
       THEN /\ log' = log
            /\ pc' = AfterLoad
       ELSE /\ log' = Append(log, Entry("ERROR", "Error loading sample data", <<>>))
            /\ pc' = AfterRaise
    /\ UNCHANGED <<file, caller, tables, trip_count, vendor_count, ret, exit_code,
                   exc, stmt, runs>>

----------------------------------------------------------------------------
(* verify_setup *)

CallVerifySetup ==
    /\ InvokeFunction("verify_setup", "vf_tables")
    /\ log' = <<>>

\* SELECT table_name FROM information_schema.tables WHERE ... IN (...)
FoundTables(d) == d.schema \cap {"trips", "vendors", "zones"}

\* (mutant) if tables:
SomeTableExists(t) == Cardinality(t) >= 1

\* if len(tables) == 3
AllTablesExist(t) == Cardinality(t) = 3

\* (mutant) logger.error for the empty database
EmptyLevelError == "ERROR"

\* logger.warning("Database is empty")
EmptyLevel == "WARNING"

\* if trip_count > 0
HasData(n) == n > 0

VerifyTables ==
    /\ pc = "vf_tables"
    /\ tables' = FoundTables(db)
    /\ IF AllTablesExist(tables')
       THEN /\ log' = log \o << Entry("INFO", "Verifying database setup...", <<>>),
                                Entry("INFO", "All tables exist", <<>>) >>
            /\ pc' = "vf_count"
            /\ ret' = ret
       ELSE /\ log' = log \o << Entry("INFO", "Verifying database setup...", <<>>),
                                Entry("ERROR", "Missing tables", <<>>) >>
            /\ pc' = AfterVerify
            /\ ret' = {FALSE}
    /\ UNCHANGED <<db, tx, file, caller, i, df, trips_data, trip_count, vendor_count,
                   exit_code, exc, stmt, runs>>

VerifyCount ==
    /\ pc = "vf_count"
    /\ trip_count' = {Len(db.trips)}
    /\ vendor_count' = {Len(db.vendors)}
    /\ pc' = AfterVerify
    /\ IF HasData(Len(db.trips))
       THEN /\ log' = log \o << Entry("INFO", "Database contains",
                                      <<Len(db.trips), Len(db.vendors)>>),
                                Entry("INFO", "Database setup complete and ready to use!", <<>>) >>
            /\ ret' = {TRUE}
       ELSE /\ log' = log \o << Entry("INFO", "Database contains",
                                      <<Len(db.trips), Len(db.vendors)>>),
                                Entry(EmptyLevel, "Database is empty", <<>>) >>
            /\ ret' = {FALSE}
    /\ UNCHANGED <<db, tx, file, caller, i, df, trips_data, tables, exit_code, exc,
                   stmt, runs>>

----------------------------------------------------------------------------
(* What is not the program: database errors and an SQL client *)

\* the server or the network fails under a statement of the open connection
DatabaseError ==
    /\ pc \in {"m_connect", "ct_execute", "ct_commit", "ld_vendor", "ld_vendor_commit",
               "ld_commit", "vf_tables", "vf_count"}
    /\ exc' = "OperationalError"
    /\ pc' = CASE pc \in {"ct_execute", "ct_commit"} -> "ct_close"
               [] pc \in {"ld_vendor", "ld_vendor_commit", "ld_commit"} -> "ld_close"
               [] OTHER -> AfterRaise
    /\ UNCHANGED <<db, tx, file, caller, i, locals, ret, exit_code, log, stmt, runs>>

\* INSERT INTO trips (vendor_id, pickup_datetime, dropoff_datetime, <col>) VALUES (...)
ClientInsertTrip ==
    /\ db.trips_seq <= MaxClientTrips
    /\ Invoke("client", "idle")
    /\ \E vendor \in {NULL} \cup {{v} : v \in ClientVendorIds}, col \in CheckedColumns :
        \E val \in ClientValues(col) :
            LET r == InsertTrip(db, ClientRow(vendor, col, val)) IN
            /\ db' = r.d
            /\ exc' = r.err
            /\ stmt' = [op |-> "insert", row |-> ClientRow(vendor, col, val), id |-> 0]
    /\ log' = <<>>

\* DELETE FROM vendors WHERE vendor_id = <id>
ClientDeleteVendor ==
    /\ Invoke("client", "idle")
    /\ \E id \in ClientVendorIds :
        LET r == DeleteVendor(db, id) IN
        /\ db' = r.d
        /\ exc' = r.err
        /\ stmt' = [op |-> "delete", row |-> <<>>, id |-> id]
    /\ log' = <<>>

----------------------------------------------------------------------------
(* Specifications *)

Init ==
    /\ db = EmptyDB
    /\ tx = NoTx
    /\ file \in {NoFile} \cup {File(rows) : rows \in GivenFiles}
    /\ pc = "idle"
    /\ caller = "none"
    /\ i = 0
    /\ df = <<>>
    /\ trips_data = <<>>
    /\ tables = {}
    /\ trip_count = {}
    /\ vendor_count = {}
    /\ ret = {}
    /\ exit_code = {}
    /\ exc = ""
    /\ log = <<>>
    /\ stmt = NoStmt
    /\ runs = 0

Main == CallMain \/ MainConnect \/ MainVerified \/ MainExcept

CreateTables ==
    \/ CallCreateTables \/ CreateTablesBegin \/ CreateTablesExecute
    \/ CreateTablesCommit \/ CreateTablesClose

LoadSampleData ==
    \/ CallLoadSampleData \/ LoadStart \/ LoadRead \/ LoadVendor \/ LoadVendorCommit
    \/ LoadBuild \/ LoadInsert \/ LoadCommit \/ LoadClose

VerifySetup == CallVerifySetup \/ VerifyTables \/ VerifyCount

\* the setup procedure and its functions, on a database that may fail
Next == Main \/ CreateTables \/ LoadSampleData \/ VerifySetup \/ DatabaseError

Spec == Init /\ [][Next]_vars

\* the schema under the statements of an SQL client
InitClient == Init /\ file = File(<<BoundaryRow, NoColumnsRow>>)

NextClient == CreateTables \/ LoadSampleData \/ ClientInsertTrip \/ ClientDeleteVendor

SpecClient == InitClient /\ [][NextClient]_vars

\* verify_setup on any database: every set of the three tables, with or
\* without rows
AnyTrip(k) == Stored([BuildTrip(NoColumnsRow) EXCEPT !.vendor_id = NULL], k)

AnyVendor(k) == [vendor_id |-> k, vendor_code |-> ToString(k), vendor_name |-> "a vendor"]

AnyDatabases ==
    { [schema |-> S, zones |-> <<>>,
       vendors |-> [k \in 1..nv |-> AnyVendor(k)], vendor_seq |-> nv + 1,
       trips |-> [k \in 1..nt |-> AnyTrip(k)], trips_seq |-> nt + 1] :
      S \in SUBSET TableNames, nv \in 0..MaxVerifyRows, nt \in 0..MaxVerifyRows }

InitVerify ==
    /\ db \in {d \in AnyDatabases : /\ "vendors" \notin d.schema => d.vendors = <<>>
                                    /\ "trips" \notin d.schema => d.trips = <<>>}
    /\ tx = NoTx
    /\ file = NoFile
    /\ pc = "idle"
    /\ caller = "none"
    /\ i = 0
    /\ df = <<>>
    /\ trips_data = <<>>
    /\ tables = {}
    /\ trip_count = {}
    /\ vendor_count = {}
    /\ ret = {}
    /\ exit_code = {}
    /\ exc = ""
    /\ log = <<>>
    /\ stmt = NoStmt
    /\ runs = 0

NextVerify == VerifySetup

SpecVerify == InitVerify /\ [][NextVerify]_vars

----------------------------------------------------------------------------
(* Properties *)

\* the catalog and the tables create_tables is to leave
CreatedSchema ==
    TableNames \cup TripIndexes \cup TripChecks \cup TripForeignKeys \cup TripNotNull
        \cup {"trip_summary"}

FreshDB == [EmptyDB EXCEPT !.schema = CreatedSchema]

InCreateTables == pc \in {"ct_execute", "ct_commit", "ct_close"}

\* C1: create_tables is idempotent: whatever the database holds when it runs
\* (nothing, or the schema and data of an earlier run), what it commits is
\* the one schema with empty tables, and it never fails because an object
\* already exists (no statement of the block is rejected).
C1_Idempotent ==
    /\ pc = "ct_commit" => tx = FreshDB
    /\ pc = "ct_close" /\ exc = "" => db = FreshDB
    /\ InCreateTables => exc # "ProgrammingError"

\* the second of two runs in a row: the database is what the first run
\* left, and the block has run through on it
C1_Witness == pc = "ct_commit" /\ db = FreshDB /\ tx = FreshDB

ClientDid(op) == pc = "idle" /\ caller = "client" /\ stmt.op = op

C2_VendorReference ==
    \A k \in 1..Len(db.trips) : db.trips[k].vendor_id \subseteq VendorIds(db)

C2_InsertRejected ==
    ClientDid("insert") /\ ~(stmt.row.vendor_id \subseteq VendorIds(db)) => exc # ""

C2_DeleteSetsNull ==
    pc = "idle" /\ stmt'.op = "delete" /\ exc' = "" =>
        /\ Len(db'.trips) = Len(db.trips)
        /\ \A k \in 1..Len(db.trips) :
            db'.trips[k] = IF db.trips[k].vendor_id = {stmt'.id}
                           THEN [db.trips[k] EXCEPT !.vendor_id = NULL]
                           ELSE db.trips[k]

\* C2: every trip's vendor_id is NULL or the id of a vendor; an insert of a
\* trip whose vendor_id is no vendor's id fails; deleting a vendor keeps
\* every trip, with vendor_id set to NULL in those that referred to it.
C2_ReferentialIntegrity ==
    [](C2_VendorReference /\ C2_InsertRejected) /\ [][C2_DeleteSetsNull]_vars

\* vendor 1 has been deleted while a loaded trip (fare 12.50 is the loader's
\* default, and the loader gives every trip vendor 1) referred to it
C2_Witness ==
    /\ ClientDid("delete") /\ stmt.id = 1 /\ exc = ""
    /\ 1 \notin VendorIds(db)
    /\ \E k \in 1..Len(db.trips) :
        db.trips[k].fare_amount = {1250} /\ db.trips[k].vendor_id = NULL

\* the ranges of section 3 of the specification
InRange(c, v) == IF c = "hour_of_day" THEN v \in 0..23 ELSE v >= 0

Violates(r) == \E c \in CheckedColumns : \E v \in r[c] : ~InRange(c, v)

C3_Rejected == ClientDid("insert") /\ Violates(stmt.row) => exc # ""

C3_Unchanged == pc = "idle" /\ stmt'.op = "insert" /\ exc' # "" => db' = db

C3_BoundaryAccepted ==
    ClientDid("insert") /\ ~Violates(stmt.row) /\ "trips" \in db.schema
        /\ stmt.row.vendor_id \subseteq VendorIds(db)
    => /\ exc = ""
       /\ Len(db.trips) > 0
       /\ db.trips[Len(db.trips)] = Stored(stmt.row, db.trips_seq - 1)

C3_NullOrInRange ==
    \A k \in 1..Len(db.trips) : \A c \in CheckedColumns :
        \A v \in db.trips[k][c] : InRange(c, v)

\* C3, as amended: an insert with a negative checked column or hour_of_day
\* = 24 fails and leaves the database as it was, the values 0 and 23 are
\* accepted, and every stored trip has each checked column either NULL or
\* in its range.
C3_ConstraintEnforcement ==
    [](C3_Rejected /\ C3_BoundaryAccepted /\ C3_NullOrInRange) /\ [][C3_Unchanged]_vars

\* a row with hour_of_day = 23 has been stored, after one with 24 or a
\* negative value would have been rejected in the same state
C3_Witness ==
    /\ ClientDid("insert") /\ exc = ""
    /\ stmt.row.hour_of_day = {23}
    /\ db.trips[Len(db.trips)].hour_of_day = {23}
    /\ RowError(db, [stmt.row EXCEPT !.hour_of_day = {24}]) = "IntegrityError"

\* C3 as claimed: every stored trip has all six checked columns in range.
C3_Original ==
    \A k \in 1..Len(db.trips) : \A c \in CheckedColumns :
        \E v \in db.trips[k][c] : InRange(c, v)

VendorCodes(d) == {d.vendors[k].vendor_code : k \in 1..Len(d.vendors)}

C4_ThreeVendors ==
    pc \in {"ld_vendor_commit", "ld_build"} =>
        /\ Len(tx.vendors) = 3
        /\ VendorCodes(tx) = {"1", "2", "3"}
        /\ exc = ""

C4_RowsKept ==
    pc = "ld_vendor" =>
        /\ exc' # "IntegrityError"
        /\ Len(tx.vendors) <= Len(tx'.vendors)
        /\ \A k \in 1..Len(tx.vendors) : tx'.vendors[k] = tx.vendors[k]

\* C4: the vendor step leaves exactly the three vendors however often it
\* has run on the schema: a vendor whose code exists is skipped without an
\* error and the rows that exist stay as they are, ids included.
C4_VendorSeeding == []C4_ThreeVendors /\ [][C4_RowsKept]_vars

\* the vendor step has run twice on one schema (six ids are used up) and
\* every vendor of the first run is still there
C4_Witness ==
    /\ pc = "ld_build"
    /\ db.vendor_seq = 7
    /\ VendorIds(db) = {1, 2, 3}

C5_Atomic ==
    InCreateTables =>
        \/ db' = db
        \/ pc = "ct_commit" /\ db' = FreshDB

\* C5: while create_tables runs the database keeps the schema and data it
\* had, up to the one step, the commit, that installs the whole new schema;
\* a failure at any statement leaves the old database.
C5_SingleTransaction == [][C5_Atomic]_vars

\* the block failed after it had dropped or created something, and the
\* database still holds the trips of an earlier load
C5_Witness ==
    /\ pc = "ct_close" /\ exc # ""
    /\ tx.schema # db.schema
    /\ db.schema = CreatedSchema
    /\ Len(db.trips) > 0

Returned == pc = "idle" /\ caller = "verify_setup" /\ ret # {}

C6_PassCondition ==
    Returned => (ret = {TRUE} <=> (TableNames \subseteq db.schema /\ Len(db.trips) > 0))

\* C6: verify_setup returns True exactly when the three tables exist and
\* trips has a row, False otherwise, and no step of it changes the database.
C6_Verify == []C6_PassCondition /\ [][db' = db]_vars

\* it returned False on a database with rows in trips, because a table is
\* missing
C6_Witness ==
    /\ Returned /\ ret = {FALSE}
    /\ Len(db.trips) > 0
    /\ Cardinality(db.schema \cap TableNames) = 2

VerifyDone == ret # {} /\ (pc = "m_verified" \/ (pc = "idle" /\ caller \in {"main", "verify_setup"}))

HasLog(msg) == \E k \in 1..Len(log) : log[k].msg = msg

LogOf(msg) == log[Min({k \in 1..Len(log) : log[k].msg = msg})]

\* C7 as claimed: what verify_setup gives its caller, and main's exit status,
\* tell a missing table from an empty trips table: False (exit status 1) is
\* the outcome of a missing table, so it is not the outcome of zero trips.
C7_Original ==
    VerifyDone /\ ret = {FALSE} => Cardinality(tables) # 3

\* C7, as amended: a missing table and an empty trips table differ in the
\* log alone (an ERROR "Missing tables" against a WARNING "Database is
\* empty"); verify_setup returns False in both and main exits with 1.
C7_LogAlone ==
    /\ VerifyDone /\ Cardinality(tables) # 3 =>
        /\ ret = {FALSE}
        /\ HasLog("Missing tables") /\ LogOf("Missing tables").level = "ERROR"
        /\ ~HasLog("Database is empty")
    /\ VerifyDone /\ Cardinality(tables) = 3 /\ trip_count = {0} =>
        /\ ret = {FALSE}
        /\ HasLog("Database is empty") /\ LogOf("Database is empty").level = "WARNING"
        /\ ~HasLog("Missing tables")
    /\ pc = "idle" /\ caller = "main" /\ ret = {FALSE} => exit_code = {1}

\* main has run on an empty sample file: the schema is there, trips is empty
C7_Witness ==
    /\ pc = "idle" /\ caller = "main" /\ exit_code = {1}
    /\ ret = {FALSE} /\ trip_count = {0} /\ tables = TableNames

Before(m1, m2) ==
    /\ HasLog(m1) /\ HasLog(m2)
    /\ Min({k \in 1..Len(log) : log[k].msg = m1}) < Min({k \in 1..Len(log) : log[k].msg = m2})

\* C8: a run of main that finds no sample file and meets no database error
\* creates the schema, then loads, then verifies: 1000 rows are synthesized,
\* 3 vendors and 1000 trips are stored, every trip with vendor_id 1, the id
\* of the first seeded vendor, and NULL zones; verify_setup finds the three
\* tables, 1000 trips and 3 vendors and returns True, and main exits with 0.
C8_FreshRun ==
    pc = "idle" /\ caller = "main" /\ HasLog("Created sample data") /\ exc # "OperationalError"
    => /\ exit_code = {0} /\ ret = {TRUE} /\ exc = ""
       /\ LogOf("Created sample data").args = <<1000>>
       /\ Len(file.rows) = 1000
       /\ Len(db.vendors) = 3
       /\ db.vendors[1] = [vendor_id |-> 1, vendor_code |-> "1",
                           vendor_name |-> "Creative Mobile Technologies"]
       /\ Len(db.trips) = 1000
       /\ \A k \in 1..Len(db.trips) :
            /\ db.trips[k].vendor_id = {1}
            /\ db.trips[k].pickup_zone_id = NULL
            /\ db.trips[k].dropoff_zone_id = NULL
       /\ tables = {"trips", "vendors", "zones"}
       /\ trip_count = {1000} /\ vendor_count = {3}
       /\ Before("Database tables created successfully", "Loading sample data...")
       /\ Before("Vendors loaded", "sample trips loaded")
       /\ Before("sample trips loaded", "Verifying database setup...")

\* the first run of main, with no file, has ended with status 0
C8_Witness ==
    /\ pc = "idle" /\ caller = "main" /\ runs = 1
    /\ HasLog("Created sample data")
    /\ exit_code = {0}
    /\ Len(db.trips) = 1000

\* what one run of main on a new database leaves, given the sample rows
AfterOneRun(rows) ==
    [FreshDB EXCEPT !.vendors = [k \in 1..3 |-> [vendor_id |-> k,
                                                  vendor_code |-> vendors_data[k].vendor_code,
                                                  vendor_name |-> vendors_data[k].vendor_name]],
                    !.vendor_seq = 4,
                    !.trips = [k \in 1..Len(rows) |-> Stored(BuildTrip(rows[k]), k)],
                    !.trips_seq = Len(rows) + 1]

\* C9: a run of main that gets as far as verifying leaves what one run on
\* a new database leaves (3 vendors, one trip per sample row), whatever
\* earlier runs, failed or complete, have left behind.
C9_Rerun ==
    pc = "idle" /\ caller = "main" /\ ret # {} => db = AfterOneRun(file.rows)

\* a run of main after at least one earlier run has ended with status 0
C9_Witness ==
    /\ pc = "idle" /\ caller = "main" /\ runs >= 2
    /\ exit_code = {0}
    /\ Len(db.trips) = Len(file.rows)

\* the vendors are committed and the connection is still open
InTripBatch ==
    /\ pc \in {"ld_build", "ld_insert", "ld_commit", "ld_close"}
    /\ i = Len(vendors_data) + 1
    /\ tx.vendor_seq = db.vendor_seq

C10_AllOrNothing ==
    InTripBatch =>
        /\ db'.vendors = db.vendors
        /\ Len(db.vendors) = 3
        /\ \/ db'.trips = db.trips
           \/ /\ pc = "ld_commit" /\ exc = ""
              /\ Len(db'.trips) = Len(db.trips) + Len(trips_data)
              /\ \A k \in 1..Len(trips_data) :
                    db'.trips[Len(db.trips) + k] = Stored(trips_data[k], db.trips_seq + k - 1)
        /\ pc = "ld_close" /\ exc # "" => exc' = exc /\ pc' \in {"m_except", "idle"}
        /\ pc = "ld_close" /\ exc # "" => db' = db

\* C10: once the vendors are committed, the trips of the batch are stored
\* all together at the commit or not at all: an error in the batch leaves
\* the trips table as it was and the vendors committed, and goes on to the
\* caller.
C10_TripBatch == [][C10_AllOrNothing]_vars

\* the batch failed after some of its rows were inserted on the connection
C10_Witness ==
    /\ InTripBatch /\ pc = "ld_close" /\ exc # ""
    /\ Len(tx.trips) > Len(db.trips)
    /\ Len(db.vendors) = 3

====
